---------------------------- MODULE Spec2Model ----------------------------
(***************************************************************************)
(* A model of pcsf_python/pcsftools.py: the helper functions around the    *)
(* OmicsIntegrator PCSF solver.  Every function of the file is a call that *)
(* runs from its arguments to a return value or a raised exception; the    *)
(* module has no state shared between calls, so each function has its own  *)
(* variables and its own specification.                                    *)
(*                                                                         *)
(* Conventions.  A list is a sequence, a dict a function, a float that the *)
(* code obtains by dividing two integers a reduced fraction <<num, den>>.  *)
(* A call ends with pc = "returned" (ret holds the value) or with          *)
(* pc = "raised" (exc names the exception that left the function).         *)
(***************************************************************************)
EXTENDS Integers, Sequences, FiniteSets, TLC

(***************************************************************************)
(* Bounds of the model.                                                    *)
(***************************************************************************)
MaxSeeds == 3
MaxIds == 2
MaxRows == 2
MaxItems == 2
MaxSols == 2
MaxNodes == 2
MaxAtts == 2

\* Python values whose kind varies are stored as tagged records: None, a list
\* [list |-> <<...>>], a dict [dict |-> f].
None == [none |-> TRUE]
PyList(s) == [list |-> s]
PyDict(f) == [dict |-> f]
NoExc == "none"
NoCause == [kind |-> "none"]

Nodes == {"A", "B", "C"}
ColNames == {"cost", "weight"}

\* The rows adjacency tables are made of: (head, tail, third column).  The
\* first two are a path, the third closes a triangle with a dearer direct
\* edge, the fourth is a loop that puts C in a graph without joining it to
\* anything, the last repeats the first edge the other way round.
EdgeRows ==
    << <<"A", "B", 1>>, <<"B", "C", 2>>, <<"A", "C", 4>>, <<"C", "C", 1>>,
       <<"B", "A", 3>> >>

\* The rows of t whose number is in S, in the order of t.
RECURSIVE SubTable(_, _)
SubTable(t, S) ==
    IF t = << >> THEN << >>
    ELSE LET rest == SubTable(SubSeq(t, 1, Len(t) - 1), S)
         IN  IF Len(t) \in S THEN Append(rest, t[Len(t)]) ELSE rest

\* The adjacency tables: every selection of rows of EdgeRows.
AdjLists == { SubTable(EdgeRows, S) : S \in SUBSET DOMAIN EdgeRows }

\* sampled_proportion as a fraction <<num, den>>, den > 0.
Proportions == { <<0 - 1, 2>>, <<0, 1>>, <<1, 2>>, <<1, 1>>, <<3, 2>> }

SeqsUpTo(S, n) == UNION { [1..k -> S] : k \in 0..n }

Range(s) == { s[k] : k \in DOMAIN s }

SetMin(S) == CHOOSE x \in S : \A y \in S : x <= y

RemoveAt(s, k) == SubSeq(s, 1, k - 1) \o SubSeq(s, k + 1, Len(s))

(***************************************************************************)
(* State of a call of get_path_costs                                       *)
(***************************************************************************)
VARIABLES
    seeds,          \* argument: list of nodes
    adj_list,       \* argument: rows of the adjacency table
    col3,           \* name of the third column of adj_list
    sampled_proportion, \* argument, <<num, den>>
    G,              \* the graph built at line 101, None before that
    combs,          \* pending (home, dest) pairs, None before line 104
    path_costs,     \* dict (home, dest) -> cost, None before line 107
    i,              \* the loop counter of line 109 / 114 / 128 (0 until bound)
    samples,        \* number of samples, line 112 (0 until bound)
    it,             \* position of the range(samples) iterator
    printed,        \* the validation message was printed
    pcP,            \* "idle", "start", "setup", "loop", "returned", "raised"
    retP,           \* returned value
    excP,           \* exception that left the call
    cause,          \* history: the exception raised inside the try block of
                    \* line 123 and the (home, dest) it was raised for
    pend,           \* history: index in the enumeration of each pending pair
    drawn           \* history: indices in the enumeration of the pairs drawn

varsP ==
    << seeds, adj_list, col3, sampled_proportion, G, combs, path_costs, i,
       samples, it, printed, pcP, retP, excP, cause, pend, drawn >>

(***************************************************************************)
(* State of a call of convert_to_gene_symbol or convert_to_string_id       *)
(***************************************************************************)
VARIABLES
    fnM,            \* the function called
    map_file,       \* the rows of the file at map_path
    ids,            \* argument: string_ids, respectively genes
    lookup,         \* string2gene, respectively gene2string; None until built
    out,            \* gene_syms, respectively string_ids (the output list)
    pos,            \* number of input elements the for loop has consumed
    pcM,            \* "idle", "start", "loop", "returned"
    retM            \* returned value

varsM == << fnM, map_file, ids, lookup, out, pos, pcM, retM >>

(***************************************************************************)
(* State of a call of make_solution_similarity_matrix                      *)
(***************************************************************************)
VARIABLES
    res_dict,       \* argument: list of (name, solution) items in dict order
    combsS,         \* combs, the pending (k1, k2) pairs; None until line 245
    sim_mat,        \* list of [k1, k2, M] rows, then the pivoted table
    pcS,            \* "idle", "start", "pairs", "return", "returned", "raised"
    retS,           \* returned value
    excS            \* exception that left the call

varsS == << res_dict, combsS, sim_mat, pcS, retS, excS >>

(***************************************************************************)
(* State of a call of get_network_details                                  *)
(***************************************************************************)
VARIABLES
    gnodes,         \* G.nodes in iteration order
    nattr,          \* G.nodes[n]: the attribute dict of node n
    atts,           \* argument: list of attribute names
    sort_by,        \* argument: NoSort (False) or an attribute name
    att_df,         \* the data frame; None until line 201
    posD,           \* number of elements of atts the for loop has consumed
    pcD,            \* "idle", "start", "columns", "finish", "returned", "raised"
    retD,           \* returned value
    excD            \* exception that left the call

varsD == << gnodes, nattr, atts, sort_by, att_df, posD, pcD, retD, excD >>

(***************************************************************************)
(* State of a call of run_pcsf                                             *)
(***************************************************************************)
VARIABLES
    prizes,         \* argument: the prized nodes
    ppi,            \* argument: the edges of the interaction network
    time,           \* argument
    add_attribs,    \* argument
    timePrinted,    \* the current time was printed
    solution,       \* (verts, edgs) of line 41; None until solved
    resultForest,   \* the networkx graph of line 44; None until built
    pcF,            \* "idle", "start", "solve", "output", "betweenness",
                    \* "eigenvector", "degree", "louvain", "return",
                    \* "returned", "raised"
    retF,           \* returned value
    excF            \* exception that left the call

varsF ==
    << prizes, ppi, time, add_attribs, timePrinted, solution, resultForest,
       pcF, retF, excF >>

vars == << varsP, varsM, varsS, varsD, varsF >>

(***************************************************************************)
(* get_path_costs                                                          *)
(***************************************************************************)
\* itertools.combinations(seeds, 2) as a list, in lexicographic index order.
RECURSIVE CombsFrom(_, _, _)
CombsFrom(s, a, b) ==
    IF a >= Len(s) THEN << >>
    ELSE IF b > Len(s) THEN CombsFrom(s, a + 1, a + 2)
    ELSE << <<s[a], s[b]>> >> \o CombsFrom(s, a, b + 1)

Combinations2(s) == CombsFrom(s, 1, 2)

\* nx.Graph.add_edge: both endpoints become nodes; the attribute dict of an
\* existing edge is updated, so a later row overwrites the same attribute.
AddEdge(g, row, col) ==
    LET key == {row[1], row[2]}
    IN  [ nodes |-> g.nodes \cup key,
          edges |-> [ e \in DOMAIN g.edges \cup {key} |->
                        IF e = key THEN [name |-> col, val |-> row[3]]
                        ELSE g.edges[e] ] ]

EmptyGraph == [ nodes |-> {}, edges |-> [ e \in {} |-> None ] ]

\* nx.from_pandas_edgelist(adj_list, source=columns[0], target=columns[1],
\*                         edge_attr=columns[2])
RECURSIVE FromPandasEdgelist(_, _)
FromPandasEdgelist(rows, col) ==
    IF rows = << >> THEN EmptyGraph
    ELSE AddEdge(FromPandasEdgelist(SubSeq(rows, 1, Len(rows) - 1), col),
                 rows[Len(rows)], col)

Neighbors(g, v) == { u \in g.nodes : {u, v} \in DOMAIN g.edges }

\* networkx _weight_function: data.get(weight, 1)
EdgeWeight(g, u, v, weight) ==
    LET d == g.edges[{u, v}]
    IN  IF d.name = weight THEN d.val ELSE 1

\* Distances from the nodes of DOMAIN d after k more rounds of relaxation.
RECURSIVE Relax(_, _, _, _)
Relax(g, weight, d, k) ==
    IF k = 0 THEN d
    ELSE LET reach == DOMAIN d \cup UNION { Neighbors(g, u) : u \in DOMAIN d }
             cand(v) ==
                 (IF v \in DOMAIN d THEN {d[v]} ELSE {})
                 \cup { d[u] + EdgeWeight(g, u, v, weight) :
                          u \in Neighbors(g, v) \cap DOMAIN d }
         IN  Relax(g, weight, [ v \in reach |-> SetMin(cand(v)) ], k - 1)

ShortestDist(g, source, weight) ==
    Relax(g, weight, [ v \in {source} |-> 0 ], Cardinality(g.nodes))

\* nx.dijkstra_path_length(G, home, dest, weight): the outcomes the call can
\* have.  For home = dest not in G the networkx release decides between
\* returning 0 and NodeNotFound.
DijkstraPathLength(g, home, dest, weight) ==
    IF home \notin g.nodes
    THEN IF home = dest
         THEN { [kind |-> "value", val |-> 0], [kind |-> "NodeNotFound", val |-> 0] }
         ELSE { [kind |-> "NodeNotFound", val |-> 0] }
    ELSE IF home = dest THEN { [kind |-> "value", val |-> 0] }
    ELSE LET d == ShortestDist(g, home, weight)
         IN  IF dest \in DOMAIN d
             THEN { [kind |-> "value", val |-> d[dest]] }
             ELSE { [kind |-> "NetworkXNoPath", val |-> 0] }

\* A sample count that rounds up instead of truncating.
NumSamplesCeil(n, p) == (n * p[1] + p[2] - 1) \div p[2]

\* int(len(combs) * sampled_proportion), line 112
NumSamples(n, p) == (n * p[1]) \div p[2]

\* A range check that lets a proportion of 0 through.
ProportionOkZero(p) == p[1] >= 0 /\ p[1] <= p[2]

\* The two assertions of lines 94-95.
ProportionOk(p) == p[1] > 0 /\ p[1] <= p[2]

\* dict item assignment d[k] = v
DictSet(d, k, v) == [ x \in DOMAIN d \cup {k} |-> IF x = k THEN v ELSE d[x] ]

EmptyDict == [ x \in {} |-> None ]

InitP ==
    /\ seeds \in SeqsUpTo(Nodes, MaxSeeds)
    /\ adj_list \in AdjLists
    /\ col3 \in ColNames
    /\ sampled_proportion \in Proportions
    /\ G = None
    /\ combs = None
    /\ path_costs = None
    /\ i = 0
    /\ samples = 0
    /\ it = 0
    /\ printed = FALSE
    /\ pcP = "start"
    /\ retP = None
    /\ excP = NoExc
    /\ cause = NoCause
    /\ pend = << >>
    /\ drawn = {}

IdleP ==
    /\ seeds = << >>
    /\ adj_list = << >>
    /\ col3 = "cost"
    /\ sampled_proportion = <<1, 1>>
    /\ G = None
    /\ combs = None
    /\ path_costs = None
    /\ i = 0
    /\ samples = 0
    /\ it = 0
    /\ printed = FALSE
    /\ pcP = "idle"
    /\ retP = None
    /\ excP = NoExc
    /\ cause = NoCause
    /\ pend = << >>
    /\ drawn = {}

\* Lines 93-98: the range check of sampled_proportion.
CheckProportion ==
    /\ pcP = "start"
    /\ IF ProportionOk(sampled_proportion)
       THEN /\ pcP' = "setup"
            /\ UNCHANGED << printed, retP >>
       ELSE /\ printed' = TRUE
            /\ retP' = None
            /\ pcP' = "returned"
    /\ UNCHANGED << seeds, adj_list, col3, sampled_proportion, G, combs,
                    path_costs, i, samples, it, excP, cause, pend, drawn >>
    /\ UNCHANGED << varsM, varsS, varsD, varsF >>

\* Lines 101-112: graph, pairs, empty result, counter, number of samples.
Setup ==
    /\ pcP = "setup"
    /\ G' = FromPandasEdgelist(adj_list, col3)
    /\ combs' = PyList(Combinations2(seeds))
    /\ path_costs' = PyDict(EmptyDict)
    /\ i' = 0
    /\ samples' = NumSamples(Len(combs'.list), sampled_proportion)
    /\ pend' = [ k \in 1..Len(combs'.list) |-> k ]
    /\ pcP' = "loop"
    /\ UNCHANGED << seeds, adj_list, col3, sampled_proportion, it, printed,
                    retP, excP, cause, drawn >>
    /\ UNCHANGED << varsM, varsS, varsD, varsF >>

\* Lines 114-128: one iteration of the loop.  The for statement assigns the
\* next value of range(samples) to i; the body pops a random pending pair and
\* asks for its path cost.  Any exception of the try block reaches the except
\* clause of line 125, whose name NetworkXNoPath is not bound in the module
\* (lines 6-11), so evaluating the clause raises NameError.
Iterate ==
    /\ pcP = "loop"
    /\ it < samples
    /\ IF Len(combs.list) = 0
       THEN \* random.randrange(0)
            /\ excP' = "ValueError"
            /\ pcP' = "raised"
            /\ i' = it
            /\ it' = it + 1
            /\ UNCHANGED << combs, path_costs, cause, pend, drawn >>
       ELSE \E r \in 1..Len(combs.list) :
              LET home == combs.list[r][1]
                  dest == combs.list[r][2]
              IN  /\ combs' = PyList(RemoveAt(combs.list, r))
                  /\ pend' = RemoveAt(pend, r)
                  /\ drawn' = drawn \cup {pend[r]}
                  /\ it' = it + 1
                  /\ \E o \in DijkstraPathLength(G, home, dest, "cost") :
                       IF o.kind = "value"
                       THEN /\ path_costs' =
                                 PyDict(DictSet(path_costs.dict, <<home, dest>>, o.val))
                            /\ i' = it + 1
                            /\ UNCHANGED << pcP, excP, cause >>
                       ELSE /\ cause' = [kind |-> o.kind, pair |-> <<home, dest>>]
                            /\ excP' = "NameError"
                            /\ pcP' = "raised"
                            /\ i' = it
                            /\ UNCHANGED path_costs
    /\ UNCHANGED << seeds, adj_list, col3, sampled_proportion, G, samples,
                    printed, retP >>
    /\ UNCHANGED << varsM, varsS, varsD, varsF >>

\* Line 130, reached when range(samples) is exhausted.
ReturnCosts ==
    /\ pcP = "loop"
    /\ it >= samples
    /\ retP' = path_costs
    /\ pcP' = "returned"
    /\ UNCHANGED << seeds, adj_list, col3, sampled_proportion, G, combs,
                    path_costs, i, samples, it, printed, excP, cause, pend,
                    drawn >>
    /\ UNCHANGED << varsM, varsS, varsD, varsF >>

NextP == CheckProportion \/ Setup \/ Iterate \/ ReturnCosts

(***************************************************************************)
(* Properties of get_path_costs                                            *)
(***************************************************************************)
\* The weight the adjacency table gives the edge between u and v: the third
\* column of the last row joining them.
TableWeight(rows, u, v) ==
    LET ks == { k \in DOMAIN rows : {rows[k][1], rows[k][2]} = {u, v} }
    IN  rows[CHOOSE k \in ks : \A j \in ks : j <= k][3]

TableJoins(rows, u, v) ==
    \E k \in DOMAIN rows : {rows[k][1], rows[k][2]} = {u, v}

\* Simple paths from u to v over the edges of the table, as node sequences.
TablePaths(rows, u, v) ==
    { p \in SeqsUpTo(Nodes, Cardinality(Nodes)) :
        /\ Len(p) >= 1
        /\ p[1] = u
        /\ p[Len(p)] = v
        /\ \A a, b \in DOMAIN p : a # b => p[a] # p[b]
        /\ \A a \in 1..(Len(p) - 1) : TableJoins(rows, p[a], p[a + 1]) }

RECURSIVE PathSum(_, _)
PathSum(rows, p) ==
    IF Len(p) <= 1 THEN 0
    ELSE TableWeight(rows, p[1], p[2]) + PathSum(rows, Tail(p))

InTable(rows, u) == \E k \in DOMAIN rows : u \in {rows[k][1], rows[k][2]}

\* C2: with sampled_proportion = 1 a returned mapping holds, for every pair
\* of seeds joined by a path, the least sum of third-column weights over the
\* paths between them, whatever the third column is called; the table
\* [(A,B,1),(B,C,2)] with seeds [A,B,C] gives {(A,B):1, (A,C):3, (B,C):2}.
C2_MinCostAnyColumn ==
    (pcP = "returned" /\ sampled_proportion = <<1, 1>>) =>
        /\ \A a, b \in DOMAIN seeds :
             (a < b /\ InTable(adj_list, seeds[a]) /\ InTable(adj_list, seeds[b])
                /\ TablePaths(adj_list, seeds[a], seeds[b]) # {}) =>
                 /\ <<seeds[a], seeds[b]>> \in DOMAIN retP.dict
                 /\ retP.dict[<<seeds[a], seeds[b]>>] =
                      SetMin({ PathSum(adj_list, p) :
                                 p \in TablePaths(adj_list, seeds[a], seeds[b]) })
        /\ (adj_list = << <<"A", "B", 1>>, <<"B", "C", 2>> >>
              /\ seeds = <<"A", "B", "C">>) =>
                 retP.dict = ( <<"A", "B">> :> 1 @@ <<"A", "C">> :> 3
                               @@ <<"B", "C">> :> 2 )

\* C3: a sampled pair whose endpoints are both in the graph but that no path
\* joins does not make the call raise.
C3_NoPathIsSkipped ==
    ~ /\ pcP = "raised"
      /\ cause.kind = "NetworkXNoPath"
      /\ cause.pair[1] \in G.nodes
      /\ cause.pair[2] \in G.nodes

StringIds == {"9606.ENSP1", "9606.ENSP2"}
GeneNames == {"TP53", "BRCA1"}
AnyIds == StringIds \cup GeneNames \cup {"UNKNOWN_ID"}

\* Rows of the mapping file: (STRING, display name).
MapRows == StringIds \X GeneNames

\* dict(zip(keys, values)): items are inserted in row order, so the last row
\* with a key decides its value.
RECURSIVE DictFromZip(_, _, _)
DictFromZip(rows, kcol, vcol) ==
    IF rows = << >> THEN EmptyDict
    ELSE DictSet(DictFromZip(SubSeq(rows, 1, Len(rows) - 1), kcol, vcol),
                 rows[Len(rows)][kcol], rows[Len(rows)][vcol])

\* A lookup built with the two columns exchanged.
String2GeneSwapped(rows) == DictFromZip(rows, 2, 1)

\* Line 146: dict(zip(tmp['STRING'], tmp['display name']))
String2Gene(rows) == DictFromZip(rows, 1, 2)

\* Line 175: dict(zip(tmp['display name'], tmp['STRING']))
Gene2String(rows) == DictFromZip(rows, 2, 1)

InitM ==
    /\ fnM \in {"convert_to_gene_symbol", "convert_to_string_id"}
    /\ map_file \in SeqsUpTo(MapRows, MaxRows)
    /\ ids \in SeqsUpTo(AnyIds, MaxIds)
    /\ lookup = None
    /\ out = << >>
    /\ pos = 0
    /\ pcM = "start"
    /\ retM = None

IdleM ==
    /\ fnM = "none"
    /\ map_file = << >>
    /\ ids = << >>
    /\ lookup = None
    /\ out = << >>
    /\ pos = 0
    /\ pcM = "idle"
    /\ retM = None

\* Lines 145-149: read the file, build string2gene, start the output list.
GeneReadMap ==
    /\ pcM = "start"
    /\ fnM = "convert_to_gene_symbol"
    /\ lookup' = PyDict(String2Gene(map_file))
    /\ out' = << >>
    /\ pcM' = "loop"
    /\ UNCHANGED << fnM, map_file, ids, pos, retM >>
    /\ UNCHANGED << varsP, varsS, varsD, varsF >>

\* Lines 151-156: one element of string_ids; a KeyError keeps the old name.
GeneConvertOne ==
    /\ pcM = "loop"
    /\ fnM = "convert_to_gene_symbol"
    /\ pos < Len(ids)
    /\ LET s == ids[pos + 1]
       IN  IF s \in DOMAIN lookup.dict
           THEN out' = Append(out, lookup.dict[s])
           ELSE out' = Append(out, s)
    /\ pos' = pos + 1
    /\ UNCHANGED << fnM, map_file, ids, lookup, pcM, retM >>
    /\ UNCHANGED << varsP, varsS, varsD, varsF >>

\* Line 158
GeneReturn ==
    /\ pcM = "loop"
    /\ fnM = "convert_to_gene_symbol"
    /\ pos >= Len(ids)
    /\ retM' = PyList(out)
    /\ pcM' = "returned"
    /\ UNCHANGED << fnM, map_file, ids, lookup, out, pos >>
    /\ UNCHANGED << varsP, varsS, varsD, varsF >>

\* Lines 174-178: read the file, build gene2string, start the output list.
StringReadMap ==
    /\ pcM = "start"
    /\ fnM = "convert_to_string_id"
    /\ lookup' = PyDict(Gene2String(map_file))
    /\ out' = << >>
    /\ pcM' = "loop"
    /\ UNCHANGED << fnM, map_file, ids, pos, retM >>
    /\ UNCHANGED << varsP, varsS, varsD, varsF >>

\* Lines 180-185: one element of genes; a KeyError keeps the old name.
StringConvertOne ==
    /\ pcM = "loop"
    /\ fnM = "convert_to_string_id"
    /\ pos < Len(ids)
    /\ LET g == ids[pos + 1]
       IN  IF g \in DOMAIN lookup.dict
           THEN out' = Append(out, lookup.dict[g])
           ELSE out' = Append(out, g)
    /\ pos' = pos + 1
    /\ UNCHANGED << fnM, map_file, ids, lookup, pcM, retM >>
    /\ UNCHANGED << varsP, varsS, varsD, varsF >>

\* Line 187
StringReturn ==
    /\ pcM = "loop"
    /\ fnM = "convert_to_string_id"
    /\ pos >= Len(ids)
    /\ retM' = PyList(out)
    /\ pcM' = "returned"
    /\ UNCHANGED << fnM, map_file, ids, lookup, out, pos >>
    /\ UNCHANGED << varsP, varsS, varsD, varsF >>

NextM ==
    \/ GeneReadMap \/ GeneConvertOne \/ GeneReturn
    \/ StringReadMap \/ StringConvertOne \/ StringReturn

(***************************************************************************)
(* Properties of the two converters                                        *)
(***************************************************************************)
\* What the mapping file says about identifier s read in column kcol: the
\* other column of the last row that has s there, or s itself when no row
\* has it.
FileTranslation(rows, kcol, vcol, s) ==
    LET ks == { k \in DOMAIN rows : rows[k][kcol] = s }
    IN  IF ks = {} THEN s
        ELSE rows[CHOOSE k \in ks : \A j \in ks : j <= k][vcol]

\* C6: the output of either converter has the length and order of the input;
\* its k-th element is the file's translation of the k-th input when the
\* file maps it and the k-th input itself when it does not; the call returns.
C6_LenientTranslation ==
    /\ pcM \in {"idle", "start", "loop", "returned"}
    /\ pcM \in {"loop", "returned"} =>
         /\ Len(out) = pos
         /\ pos <= Len(ids)
         /\ \A k \in DOMAIN out :
              out[k] = IF fnM = "convert_to_gene_symbol"
                       THEN FileTranslation(map_file, 1, 2, ids[k])
                       ELSE FileTranslation(map_file, 2, 1, ids[k])
    /\ pcM = "returned" => (retM = PyList(out) /\ Len(out) = Len(ids))
    /\ (/\ pcM = "returned"
        /\ fnM = "convert_to_gene_symbol"
        /\ map_file = << <<"9606.ENSP1", "TP53">> >>
        /\ ids = <<"9606.ENSP1", "UNKNOWN_ID">>) =>
            retM = PyList(<<"TP53", "UNKNOWN_ID">>)

\* Both converters returned a list holding a translated and a passed-through
\* element.
C6_Witness ==
    /\ pcM = "returned"
    /\ fnM = "convert_to_string_id"
    /\ map_file = << <<"9606.ENSP1", "TP53">>, <<"9606.ENSP2", "TP53">> >>
    /\ ids = <<"TP53", "UNKNOWN_ID">>
    /\ retM = PyList(<<"9606.ENSP2", "UNKNOWN_ID">>)

(***************************************************************************)
(* _get_similarity and make_solution_similarity_matrix                     *)
(***************************************************************************)
SolNames == {"s1", "s2", "s3"}
Items == {"x", "y"}

\* The dicts with at most MaxSols solutions, as item lists in key order.
ResDicts ==
    { d \in SeqsUpTo(SolNames \X SeqsUpTo(Items, MaxItems), MaxSols) :
        \A a, b \in DOMAIN d : a # b => d[a][1] # d[b][1] }

DictKeys(d) == [ k \in DOMAIN d |-> d[k][1] ]

DictGet(d, key) == d[CHOOSE k \in DOMAIN d : d[k][1] = key][2]

\* itertools.product(xs, ys) as a list.
RECURSIVE Product(_, _)
Product(xs, ys) ==
    IF xs = << >> THEN << >>
    ELSE [ k \in DOMAIN ys |-> <<xs[1], ys[k]>> ] \o Product(Tail(xs), ys)

RECURSIVE Gcd(_, _)
Gcd(a, b) == IF b = 0 THEN a ELSE Gcd(b, a % b)

\* The float n / d, kept as a fraction in lowest terms.
FloatDiv(n, d) == << n \div Gcd(n, d), d \div Gcd(n, d) >>

\* A similarity that divides by the size of the first list's set.
GetSimilarityOverFirst(a, b) ==
    IF Range(a) = {}
    THEN [kind |-> "ZeroDivisionError", val |-> <<0, 1>>]
    ELSE [kind |-> "value",
          val |-> FloatDiv(Cardinality(Range(a) \cap Range(b)),
                           Cardinality(Range(a)))]

\* Line 75: len(set(a).intersection(set(b))) / len(set(a).union(set(b)))
GetSimilarity(a, b) ==
    IF Range(a) \cup Range(b) = {}
    THEN [kind |-> "ZeroDivisionError", val |-> <<0, 1>>]
    ELSE [kind |-> "value",
          val |-> FloatDiv(Cardinality(Range(a) \cap Range(b)),
                           Cardinality(Range(a) \cup Range(b)))]

\* DataFrame(rows, columns=[PCSF1, PCSF2, M]).pivot(index=PCSF1,
\* columns=PCSF2, values=M): the cell at (k1, k2) is the M of the row
\* (k1, k2, M).
Pivot(rows) ==
    LET idx == { rows[k][1] : k \in DOMAIN rows }
        cols == { rows[k][2] : k \in DOMAIN rows }
    IN  [ table |->
            [ r \in idx |->
                [ c \in cols |->
                    rows[CHOOSE k \in DOMAIN rows :
                           rows[k][1] = r /\ rows[k][2] = c][3] ] ] ]

InitS ==
    /\ res_dict \in ResDicts
    /\ combsS = None
    /\ sim_mat = None
    /\ pcS = "start"
    /\ retS = None
    /\ excS = NoExc

IdleS ==
    /\ res_dict = << >>
    /\ combsS = None
    /\ sim_mat = None
    /\ pcS = "idle"
    /\ retS = None
    /\ excS = NoExc

\* Lines 245-248: all ordered pairs of keys, empty output list.
SimStart ==
    /\ pcS = "start"
    /\ combsS' = PyList(Product(DictKeys(res_dict), DictKeys(res_dict)))
    /\ sim_mat' = PyList(<< >>)
    /\ pcS' = "pairs"
    /\ UNCHANGED << res_dict, retS, excS >>
    /\ UNCHANGED << varsP, varsM, varsD, varsF >>

\* Lines 250-252: one pair of the for loop.
SimPair ==
    /\ pcS = "pairs"
    /\ Len(sim_mat.list) < Len(combsS.list)
    /\ LET pair == combsS.list[Len(sim_mat.list) + 1]
           k1 == pair[1]
           k2 == pair[2]
           m == GetSimilarity(DictGet(res_dict, k1), DictGet(res_dict, k2))
       IN  IF m.kind = "value"
           THEN /\ sim_mat' = PyList(Append(sim_mat.list, <<k1, k2, m.val>>))
                /\ UNCHANGED << pcS, excS >>
           ELSE /\ excS' = m.kind
                /\ pcS' = "raised"
                /\ UNCHANGED sim_mat
    /\ UNCHANGED << res_dict, combsS, retS >>
    /\ UNCHANGED << varsP, varsM, varsD, varsF >>

\* Line 254: the rows become the pivoted table, bound to sim_mat.
SimPivot ==
    /\ pcS = "pairs"
    /\ Len(sim_mat.list) >= Len(combsS.list)
    /\ sim_mat' = Pivot(sim_mat.list)
    /\ pcS' = "return"
    /\ UNCHANGED << res_dict, combsS, retS, excS >>
    /\ UNCHANGED << varsP, varsM, varsD, varsF >>

\* Line 256: return simMat.  No name simMat is bound in the function or the
\* module (the table is bound to sim_mat), so the statement raises NameError.
SimReturn ==
    /\ pcS = "return"
    /\ excS' = "NameError"
    /\ pcS' = "raised"
    /\ UNCHANGED << res_dict, combsS, sim_mat, retS >>
    /\ UNCHANGED << varsP, varsM, varsD, varsF >>

NextS == SimStart \/ SimPair \/ SimPivot \/ SimReturn

(***************************************************************************)
(* Properties of the similarity functions                                  *)
(***************************************************************************)
\* C7: of the similarities computed for non-empty lists, those of (A, B) and
\* (B, A) are equal, that of (A, A) is 1.0, every value lies in [0, 1], and
\* two pairs of lists with the same distinct elements get the same value.
C7_Similarity ==
    (pcS = "pairs") =>
        \A a, b \in DOMAIN sim_mat.list :
            LET r == sim_mat.list[a]
                q == sim_mat.list[b]
                setOf(k) == Range(DictGet(res_dict, k))
            IN  /\ (r[1] = q[2] /\ r[2] = q[1]) => r[3] = q[3]
                /\ r[1] = r[2] => r[3] = <<1, 1>>
                /\ 0 <= r[3][1] /\ r[3][1] <= r[3][2] /\ r[3][2] > 0
                /\ (setOf(r[1]) = setOf(q[1]) /\ setOf(r[2]) = setOf(q[2]))
                      => r[3] = q[3]
                /\ setOf(r[1]) = setOf(r[2]) => r[3] = <<1, 1>>
                /\ setOf(r[1]) \cap setOf(r[2]) = {} => r[3] = <<0, 1>>

\* The similarities of two different overlapping lists, one with a repeated
\* element, were computed in both orders.
C7_Witness ==
    /\ pcS = "pairs"
    /\ res_dict = << <<"s1", <<"x", "x">> >>, <<"s2", <<"y", "x">> >> >>
    /\ Len(sim_mat.list) = 4
    /\ sim_mat.list[2] = <<"s1", "s2", <<1, 2>> >>
    /\ sim_mat.list[3] = <<"s2", "s1", <<1, 2>> >>

\* C8: for one or more named non-empty solutions the call returns the table
\* whose cell (name1, name2) is the set-overlap similarity of the two
\* solutions, for every ordered pair of names.
C8_ReturnsMatrix ==
    (/\ pcS \in {"returned", "raised"}
     /\ Len(res_dict) >= 1
     /\ \A k \in DOMAIN res_dict : res_dict[k][2] # << >>) =>
        /\ pcS = "returned"
        /\ retS = [ table |->
             [ r \in Range(DictKeys(res_dict)) |->
                 [ c \in Range(DictKeys(res_dict)) |->
                     LET A == Range(DictGet(res_dict, r))
                         B == Range(DictGet(res_dict, c))
                     IN  FloatDiv(Cardinality(A \cap B), Cardinality(A \cup B)) ] ] ]

(***************************************************************************)
(* get_network_details                                                     *)
(***************************************************************************)
NodeIds == {"n1", "n2", "n3"}
AttNames == {"score", "rank"}
AttValues == {1, 5}

\* sort_by = False, the default.
NoSort == "False"

\* The attribute dicts a node can have: any part of AttNames, any values.
AttDicts == UNION { [D -> AttValues] : D \in SUBSET AttNames }

\* Lists of distinct nodes: a graph's nodes in insertion order.
NodeLists ==
    { l \in SeqsUpTo(NodeIds, MaxNodes) :
        \A a, b \in DOMAIN l : a # b => l[a] # l[b] }

RECURSIVE SelectSeq2(_, _, _)
SelectSeq2(l, d, a) ==
    IF l = << >> THEN << >>
    ELSE (IF a \in DOMAIN d[l[1]] THEN << d[l[1]][a] >> ELSE << >>)
         \o SelectSeq2(Tail(l), d, a)

\* nx.get_node_attributes(G, a).values(): the values of attribute a of the
\* nodes that have it, in node order.
NodeAttributeValues(nodes, d, a) == SelectSeq2(nodes, d, a)

\* pd.DataFrame(index=G.nodes): one row per node, no column.
NewFrame(nodes) ==
    [ index |-> nodes, columns |-> << >>, cells |-> [ c \in {} |-> << >> ] ]

\* att_df[a] = values, for a list of values: the k-th value goes to the k-th
\* row; a list whose length is not the number of rows is refused.
SetColumn(df, a, values) ==
    [ index |-> df.index,
      columns |-> IF a \in Range(df.columns) THEN df.columns
                  ELSE Append(df.columns, a),
      cells |-> [ c \in DOMAIN df.cells \cup {a} |->
                    IF c = a THEN values ELSE df.cells[c] ] ]

InitD ==
    /\ gnodes \in NodeLists
    /\ nattr \in [ Range(gnodes) -> AttDicts ]
    /\ atts \in SeqsUpTo(AttNames, MaxAtts)
    /\ sort_by \in {NoSort} \cup AttNames
    /\ att_df = None
    /\ posD = 0
    /\ pcD = "start"
    /\ retD = None
    /\ excD = NoExc

IdleD ==
    /\ gnodes = << >>
    /\ nattr = << >>
    /\ atts = << >>
    /\ sort_by = NoSort
    /\ att_df = None
    /\ posD = 0
    /\ pcD = "idle"
    /\ retD = None
    /\ excD = NoExc

\* Line 201
DetailsFrame ==
    /\ pcD = "start"
    /\ att_df' = NewFrame(gnodes)
    /\ pcD' = "columns"
    /\ UNCHANGED << gnodes, nattr, atts, sort_by, posD, retD, excD >>
    /\ UNCHANGED << varsP, varsM, varsS, varsF >>

\* Lines 203-204: one attribute of the for loop.
DetailsColumn ==
    /\ pcD = "columns"
    /\ posD < Len(atts)
    /\ LET a == atts[posD + 1]
           values == NodeAttributeValues(gnodes, nattr, a)
       IN  IF Len(values) = Len(att_df.index)
           THEN /\ att_df' = SetColumn(att_df, a, values)
                /\ UNCHANGED << pcD, excD >>
           ELSE /\ excD' = "ValueError"
                /\ pcD' = "raised"
                /\ UNCHANGED att_df
    /\ posD' = posD + 1
    /\ UNCHANGED << gnodes, nattr, atts, sort_by, retD >>
    /\ UNCHANGED << varsP, varsM, varsS, varsF >>

\* Lines 206-210.  With a sort_by the assertion of line 207 comes first; line
\* 208 then names sortBy, which is bound nowhere (the parameter is sort_by),
\* so it raises NameError before any sorting.
DetailsFinish ==
    /\ pcD = "columns"
    /\ posD >= Len(atts)
    /\ IF sort_by # NoSort
       THEN /\ excD' = IF sort_by \in Range(att_df.columns)
                       THEN "NameError" ELSE "AssertionError"
            /\ pcD' = "raised"
            /\ UNCHANGED retD
       ELSE /\ retD' = att_df
            /\ pcD' = "returned"
            /\ UNCHANGED excD
    /\ UNCHANGED << gnodes, nattr, atts, sort_by, att_df, posD >>
    /\ UNCHANGED << varsP, varsM, varsS, varsF >>

NextD == DetailsFrame \/ DetailsColumn \/ DetailsFinish

(***************************************************************************)
(* Properties of get_network_details                                       *)
(***************************************************************************)
\* C9: without a sort the call returns a table with one row per node, in
\* node order, and one column per requested attribute, whose cell at
\* (node n, attribute a) is the value of a stored on n, also when only some
\* of the nodes carry a (the cell of a node without a holds no value).
C9_RowPerNode ==
    (pcD \in {"returned", "raised"} /\ sort_by = NoSort) =>
        /\ pcD = "returned"
        /\ retD.index = gnodes
        /\ Range(retD.columns) = Range(atts)
        /\ \A a \in Range(atts) : \A k \in DOMAIN gnodes :
             IF a \in DOMAIN nattr[gnodes[k]]
             THEN /\ k \in DOMAIN retD.cells[a]
                  /\ retD.cells[a][k] = nattr[gnodes[k]][a]
             ELSE k \notin DOMAIN retD.cells[a]

\* The rows of table t in the order perm, a permutation of its row numbers.
IsRowOrderOf(t, u, perm) ==
    /\ Len(perm) = Len(u.index)
    /\ Range(perm) = DOMAIN u.index
    /\ t.index = [ k \in DOMAIN perm |-> u.index[perm[k]] ]
    /\ t.columns = u.columns
    /\ \A c \in Range(u.columns) :
         t.cells[c] = [ k \in DOMAIN perm |-> u.cells[c][perm[k]] ]

\* C10: when every node carries the requested attributes, a sort_by that is
\* one of the columns makes the call return the rows of the unsorted table
\* in descending order of that attribute; a sort_by that is no column makes
\* it fail with an assertion violation.
C10_SortByColumn ==
    (/\ pcD \in {"returned", "raised"}
     /\ sort_by # NoSort
     /\ \A a \in Range(atts) : \A n \in Range(gnodes) : a \in DOMAIN nattr[n]) =>
        IF sort_by \in Range(atts)
        THEN /\ pcD = "returned"
             /\ \E perm \in [ DOMAIN gnodes -> DOMAIN gnodes ] :
                  IsRowOrderOf(retD, att_df, perm)
             /\ \A j, k \in DOMAIN gnodes :
                  j < k => retD.cells[sort_by][j] >= retD.cells[sort_by][k]
        ELSE pcD = "raised" /\ excD = "AssertionError"

(***************************************************************************)
(* run_pcsf                                                                *)
(***************************************************************************)
\* The edges an interaction network is drawn from, each a set of two nodes.
PpiEdges == { {"A", "B"}, {"B", "C"} }

EdgeNodes(es) == UNION es

\* What pcsfGraph.pcsf() can return for a network with edges es: a set of
\* vertices of the network and a set of its edges between them.  The solver
\* is not part of the repository; any such pair is possible.
PcsfSolutions(es) ==
    { sol \in (SUBSET EdgeNodes(es)) \X (SUBSET es) :
        \A e \in sol[2] : e \subseteq sol[1] }

\* pcsfGraph.output_forest_as_networkx(verts, edgs)[0]: the graph of the
\* solution, attr[n] being the attribute dict of node n.
ForestOf(sol) ==
    [ nodes |-> sol[1], edges |-> sol[2], attr |-> [ n \in sol[1] |-> EmptyDict ] ]

\* The result of a graph measure on node n of graph g: the library computes
\* it from the graph's nodes and edges alone.
Measure(name, g, n) ==
    [ measure |-> name, nodes |-> g.nodes, edges |-> g.edges, node |-> n ]

\* The dict a measure returns: its value for each node of g.
MeasureDict(name, g) == [ n \in g.nodes |-> Measure(name, g, n) ]

\* nx.set_node_attributes(g, {node: {name: values[node]}}): the attribute is
\* set on every node that is a key of values.
SetNodeAttributes(g, name, values) ==
    [ g EXCEPT !.attr =
        [ n \in g.nodes |->
            IF n \in DOMAIN values THEN DictSet(g.attr[n], name, values[n])
            ELSE g.attr[n] ] ]

InitF ==
    /\ prizes \in SUBSET Nodes
    /\ ppi \in SUBSET PpiEdges
    /\ time \in BOOLEAN
    /\ add_attribs \in BOOLEAN
    /\ timePrinted = FALSE
    /\ solution = None
    /\ resultForest = None
    /\ pcF = "start"
    /\ retF = None
    /\ excF = NoExc

IdleF ==
    /\ prizes = {}
    /\ ppi = {}
    /\ time = FALSE
    /\ add_attribs = TRUE
    /\ timePrinted = FALSE
    /\ solution = None
    /\ resultForest = None
    /\ pcF = "idle"
    /\ retF = None
    /\ excF = NoExc

\* Lines 29-38: the optional time stamp, the solver's graph, the prizes.
\* A failure of the solver package leaves the function uncaught.
PcsfPrepare ==
    /\ pcF = "start"
    /\ timePrinted' = time
    /\ \/ pcF' = "solve" /\ UNCHANGED excF
       \/ pcF' = "raised" /\ excF' = "SolverError"
    /\ UNCHANGED << prizes, ppi, time, add_attribs, solution, resultForest,
                    retF >>
    /\ UNCHANGED << varsP, varsM, varsS, varsD >>

\* Line 41
PcsfSolve ==
    /\ pcF = "solve"
    /\ \/ /\ solution' \in PcsfSolutions(ppi)
          /\ pcF' = "output"
          /\ UNCHANGED excF
       \/ /\ pcF' = "raised"
          /\ excF' = "SolverError"
          /\ UNCHANGED solution
    /\ UNCHANGED << prizes, ppi, time, add_attribs, timePrinted,
                    resultForest, retF >>
    /\ UNCHANGED << varsP, varsM, varsS, varsD >>

\* Lines 44-46
PcsfOutput ==
    /\ pcF = "output"
    /\ resultForest' = ForestOf(solution)
    /\ pcF' = IF add_attribs THEN "betweenness" ELSE "return"
    /\ UNCHANGED << prizes, ppi, time, add_attribs, timePrinted, solution,
                    retF, excF >>
    /\ UNCHANGED << varsP, varsM, varsS, varsD >>

\* Lines 49-50
PcsfBetweenness ==
    /\ pcF = "betweenness"
    /\ resultForest' =
         SetNodeAttributes(resultForest, "b_centrality",
                           MeasureDict("betweenness_centrality", resultForest))
    /\ pcF' = "eigenvector"
    /\ UNCHANGED << prizes, ppi, time, add_attribs, timePrinted, solution,
                    retF, excF >>
    /\ UNCHANGED << varsP, varsM, varsS, varsD >>

\* Lines 52-53.  nx.eigenvector_centrality refuses the graph without nodes.
PcsfEigenvector ==
    /\ pcF = "eigenvector"
    /\ IF resultForest.nodes = {}
       THEN /\ excF' = "NetworkXPointlessConcept"
            /\ pcF' = "raised"
            /\ UNCHANGED resultForest
       ELSE /\ resultForest' =
                 SetNodeAttributes(resultForest, "ev_centrality",
                           MeasureDict("eigenvector_centrality", resultForest))
            /\ pcF' = "degree"
            /\ UNCHANGED excF
    /\ UNCHANGED << prizes, ppi, time, add_attribs, timePrinted, solution,
                    retF >>
    /\ UNCHANGED << varsP, varsM, varsS, varsD >>

\* Lines 55-56
PcsfDegree ==
    /\ pcF = "degree"
    /\ resultForest' =
         SetNodeAttributes(resultForest, "deg_centrality",
                           MeasureDict("degree_centrality", resultForest))
    /\ pcF' = "louvain"
    /\ UNCHANGED << prizes, ppi, time, add_attribs, timePrinted, solution,
                    retF, excF >>
    /\ UNCHANGED << varsP, varsM, varsS, varsD >>

\* Lines 58-59.  The dict of cluster labels is built from
\* community.best_partition(resultForest), and no name community is bound in
\* the module (lines 6-11 import pandas, itertools, networkx, graph, random
\* and datetime): evaluating it raises NameError before any attribute is set.
PcsfLouvain ==
    /\ pcF = "louvain"
    /\ excF' = "NameError"
    /\ pcF' = "raised"
    /\ UNCHANGED << prizes, ppi, time, add_attribs, timePrinted, solution,
                    resultForest, retF >>
    /\ UNCHANGED << varsP, varsM, varsS, varsD >>

\* Line 61
PcsfReturn ==
    /\ pcF = "return"
    /\ retF' = resultForest
    /\ pcF' = "returned"
    /\ UNCHANGED << prizes, ppi, time, add_attribs, timePrinted, solution,
                    resultForest, excF >>
    /\ UNCHANGED << varsP, varsM, varsS, varsD >>

NextF ==
    \/ PcsfPrepare \/ PcsfSolve \/ PcsfOutput \/ PcsfBetweenness
    \/ PcsfEigenvector \/ PcsfDegree \/ PcsfLouvain \/ PcsfReturn

(***************************************************************************)
(* Properties of run_pcsf                                                  *)
(***************************************************************************)
\* C1: with add_attribs true and a solver that produced a solution with at
\* least one vertex, the call returns the forest of the solver's vertex and
\* edge sets, every node of which carries b_centrality, ev_centrality,
\* deg_centrality and louvain_clusters, each computed over that forest.
C1_AnnotatedForest ==
    (/\ pcF \in {"returned", "raised"}
     /\ add_attribs
     /\ solution # None
     /\ resultForest # None
     /\ resultForest.nodes # {}) =>
        /\ pcF = "returned"
        /\ retF.nodes = solution[1]
        /\ retF.edges = solution[2]
        /\ \A n \in retF.nodes :
             /\ DOMAIN retF.attr[n] =
                  {"b_centrality", "ev_centrality", "deg_centrality",
                   "louvain_clusters"}
             /\ \A a \in {"b_centrality", "ev_centrality", "deg_centrality"} :
                  /\ retF.attr[n][a].nodes = solution[1]
                  /\ retF.attr[n][a].edges = solution[2]

(***************************************************************************)
(* Specifications: one call of one function                                *)
(***************************************************************************)
InitPath == InitP /\ IdleM /\ IdleS /\ IdleD /\ IdleF

SpecPath == InitPath /\ [][NextP]_vars

InitMap == IdleP /\ InitM /\ IdleS /\ IdleD /\ IdleF

SpecMap == InitMap /\ [][NextM]_vars

InitSim == IdleP /\ IdleM /\ InitS /\ IdleD /\ IdleF

SpecSim == InitSim /\ [][NextS]_vars

InitDetails == IdleP /\ IdleM /\ IdleS /\ InitD /\ IdleF

SpecDetails == InitDetails /\ [][NextD]_vars

InitPcsf == IdleP /\ IdleM /\ IdleS /\ IdleD /\ InitF

SpecPcsf == InitPcsf /\ [][NextF]_vars

=============================================================================
